---- MODULE Spec2Model ----
(***************************************************************************)
(* Random Tree learner (src/RTLearner.py): the recursive tree builder      *)
(* __build_tree as an explicit call stack, the table walk __tree_search,   *)
(* and the learner facade (constructor with deepcopy, addEvidence, query). *)
(*                                                                         *)
(* Feature values are float64 numbers.  The model takes them from one      *)
(* binade: the integer k stands for the float whose significand is k units *)
(* in the last place above the binade's start, so that comparisons are     *)
(* those of the integers and np.mean of two of them is the rounded         *)
(* (round-half-to-even) sum, halved: see FMean.                            *)
(***************************************************************************)
EXTENDS Integers, Sequences, FiniteSets, TLC

\* ---------------------------------------------------------------- bounds
MaxSamples == 3      \* rows of a training set
MaxFeats   == 2      \* columns of a training set
MaxCells   == 4      \* entries (rows times columns) of a training set
MaxVal     == 2      \* feature values 0..MaxVal
MaxY       == 2      \* target values 1..MaxY
MaxLeaf    == 2      \* leaf_size 1..MaxLeaf
FacadeSamples == 2   \* rows of a training set, for the facade
FacadeFeats == 1     \* columns of a training set, for the facade
MaxFits    == 2      \* trees stacked in one table
MaxWrites  == 1      \* in-place row overwrites per learner
MaxPoints  == 2      \* points of one query call

\* ------------------------------------------------------- program constants
LeafFeat == -1       \* feature index of a leaf row
NaN      == 0        \* the np.nan of a leaf row's two offset cells
NoTree   == 0        \* self.tree is None

Vals    == 0..MaxVal
YVals   == 1..MaxY
Learners == {"rtl", "rtl2"}
Addr    == 1..Cardinality(Learners)

VARIABLES
    dataX,      \* the training matrix passed to addEvidence: rows of features
    dataY,      \* the training targets
    leaf_size,  \* the learners' leaf_size
    learner,    \* learner -> [made, tree (an address or NoTree), nfit, nwrite]
    heap,       \* address -> the numpy table stored there (<<>>: free)
    pc,         \* "idle" | "build" | "query"
    cur,        \* the learner whose method runs (or ran last)
    train,      \* the rows of dataX, dataY the running addEvidence call was given
    stack,      \* the frames of the running __build_tree calls
    ret,        \* the table the outermost __build_tree call returned
    qpoints,    \* query: the points
    qi,         \* query: position of the current point
    qrow,       \* __tree_search: the row argument (0-based)
    qtrail,     \* the rows visited for the current point, in order
    preds,      \* query: the predictions gathered so far
    qleaf,      \* the rows at which the gathered predictions were read
    outcome     \* how the last query call ended: "none" | "ok" | an error

vars == <<dataX, dataY, leaf_size, learner, heap, pc, cur, train, stack, ret,
          qpoints, qi, qrow, qtrail, preds, qleaf, outcome>>

dataVars  == <<dataX, dataY, leaf_size>>
queryVars == <<qpoints, qi, qrow, qtrail, preds, qleaf, outcome>>
buildVars == <<train, stack, ret>>

\* ---------------------------------------------------------------- helpers
NumSamples(idx) == Len(idx)
NumFeats == IF Len(dataX) = 0 THEN 0 ELSE Len(dataX[1])

\* dataY restricted to the rows idx, in order
SubY(idx) == [k \in 1..Len(idx) |-> dataY[idx[k]]]
\* column f (0-based) of dataX restricted to the rows idx
Column(idx, f) == [k \in 1..Len(idx) |-> dataX[idx[k]][f + 1]]

Range(s) == {s[k] : k \in 1..Len(s)}

Count(s, v) == Cardinality({k \in 1..Len(s) : s[k] = v})
FirstPos(s, v) == CHOOSE k \in 1..Len(s) : s[k] = v /\ \A j \in 1..(k - 1) : s[j] # v

\* Counter(dataY).most_common(1)[0][0]: the most frequent value, the first
\* encountered among equally frequent ones
Mode(ys) ==
    CHOOSE v \in Range(ys) :
        \A w \in Range(ys) \ {v} :
            \/ Count(ys, v) > Count(ys, w)
            \/ Count(ys, v) = Count(ys, w) /\ FirstPos(ys, v) < FirstPos(ys, w)

\* np.mean([a, b]) in float64: the sum is rounded to nearest, ties to even,
\* and the halving is exact
FMean(a, b) ==
    IF (a + b) % 2 = 0 THEN (a + b) \div 2
    ELSE IF ((a + b - 1) \div 2) % 2 = 0 THEN (a + b - 1) \div 2
         ELSE (a + b + 1) \div 2

\* the rows of a table
LeafRow(idx) ==
    [feat |-> LeafFeat, val |-> Mode(SubY(idx)), left |-> NaN, right |-> NaN,
     idx |-> idx]
RootRow(f, s, rstart, idx) ==
    [feat |-> f, val |-> s, left |-> 1, right |-> rstart, idx |-> idx]

\* line 56 without its second test
StopAsLeafAnyY(idx) == NumSamples(idx) <= leaf_size
\* line 56: num_samples <= leaf_size or all of dataY the same
StopAsLeaf(idx) ==
    NumSamples(idx) <= leaf_size \/ Cardinality(Range(SubY(idx))) = 1

\* lines 78-79: the boolean index arrays, as the selected rows in order
LeftIndex(idx, f, s)  == SelectSeq(idx, LAMBDA i : dataX[i][f + 1] <= s)
RightIndex(idx, f, s) == SelectSeq(idx, LAMBDA i : dataX[i][f + 1] > s)

\* line 82: len(np.unique(left_index)) != 1
CanSplit(idx, f, s) ==
    /\ \E k \in 1..Len(idx) : dataX[idx[k]][f + 1] <= s
    /\ \E k \in 1..Len(idx) : ~(dataX[idx[k]][f + 1] <= s)

\* line 85 left out
PoolKeep(pool, f) == pool
\* line 85: avail_feats_for_split.remove(rand_feat_i)
PoolRemove(pool, f) == pool \ {f}

\* lines 96-99 off by one, either way
RightTreeStartPlus2(lefttree) == Len(lefttree) + 2
RightTreeStartNoPlus(lefttree) ==
    IF Len(lefttree) = 1 THEN 2 ELSE Len(lefttree)
\* lines 96-99: the row, from the root, at which the right subtree starts
RightTreeStart(lefttree) ==
    IF Len(lefttree) = 1 THEN 2 ELSE Len(lefttree) + 1

\* line 102 without the root row
VStackNoRoot(root, lefttree, righttree) == lefttree \o righttree
\* line 102: np.vstack((root, lefttree, righttree))
VStack(root, lefttree, righttree) == <<root>> \o lefttree \o righttree

Frame(idx) ==
    [idx |-> idx, at |-> "enter", pool |-> {}, feat |-> 0, r0 |-> 0, r1 |-> 0,
     split |-> 0, left |-> <<>>, right |-> <<>>, attempts |-> 0]

Top == stack[Len(stack)]
SetTop(f) == [stack EXCEPT ![Len(stack)] = f]
Pop == SubSeq(stack, 1, Len(stack) - 1)

\* a __build_tree call returns table: to addEvidence when it is the outermost
\* call (line 145), else to the caller's line 92 (which goes on to the call of
\* line 93) or line 93
Deliver(table) ==
    IF Len(stack) = 1
    THEN /\ stack' = <<>>
         /\ ret' = table
    ELSE LET p == stack[Len(stack) - 1] IN
         /\ ret' = ret
         /\ IF p.at = "left"
            THEN stack' = [Pop EXCEPT ![Len(stack) - 1] =
                               [p EXCEPT !.left = table, !.at = "right"]]
                          \o <<Frame(RightIndex(p.idx, p.feat, p.split))>>
            ELSE stack' = [Pop EXCEPT ![Len(stack) - 1] =
                               [p EXCEPT !.right = table, !.at = "combine"]]

Building == pc = "build" /\ stack # <<>>

\* the table of a learner (<<>> when it owns none)
TableOf(l) == IF learner[l].tree = NoTree THEN <<>> ELSE heap[learner[l].tree]

\* ------------------------------------------------------------ __build_tree
\* lines 53-57: at most leaf_size samples, or one Y value: return leaf
BuildLeafStop ==
    /\ Building /\ Top.at = "enter"
    /\ StopAsLeaf(Top.idx)
    /\ Deliver(<<LeafRow(Top.idx)>>)
    /\ UNCHANGED <<dataVars, learner, heap, pc, cur, train, queryVars>>

\* line 59: avail_feats_for_split = list(range(num_feats))
BuildBeginSearch ==
    /\ Building /\ Top.at = "enter"
    /\ ~StopAsLeaf(Top.idx)
    /\ stack' = SetTop([Top EXCEPT !.at = "loop", !.pool = 0..(NumFeats - 1)])
    /\ UNCHANGED <<dataVars, learner, heap, pc, cur, train, ret, queryVars>>

\* lines 62-67: draw a feature of the pool and two rows
ChooseAndDraw(f, a, b) ==
    /\ Building /\ Top.at = "loop"
    /\ Top.pool # {}
    /\ f \in Top.pool
    /\ a \in 0..(NumSamples(Top.idx) - 1)
    /\ b \in 0..(NumSamples(Top.idx) - 1)
    /\ stack' = SetTop([Top EXCEPT !.at = "rows", !.feat = f, !.r0 = a, !.r1 = b])
    /\ UNCHANGED <<dataVars, learner, heap, pc, cur, train, ret, queryVars>>

\* lines 70-71: the two rows are the same: draw them again
Redraw(a, b) ==
    /\ Building /\ Top.at = "rows"
    /\ Top.r0 = Top.r1 /\ NumSamples(Top.idx) > 1
    /\ a \in 0..(NumSamples(Top.idx) - 1)
    /\ b \in 0..(NumSamples(Top.idx) - 1)
    /\ stack' = SetTop([Top EXCEPT !.r0 = a, !.r1 = b])
    /\ UNCHANGED <<dataVars, learner, heap, pc, cur, train, ret, queryVars>>

RedrawSame     == \E a \in 0..(MaxSamples - 1) : Redraw(a, a)
RedrawDistinct == \E a, b \in 0..(MaxSamples - 1) : a # b /\ Redraw(a, b)

\* lines 74-75: the mean of the feature's values at the two rows
SplitVal(fr) ==
    FMean(dataX[fr.idx[fr.r0 + 1]][fr.feat + 1], dataX[fr.idx[fr.r1 + 1]][fr.feat + 1])

RowsDrawn ==
    /\ Building /\ Top.at = "rows"
    /\ ~(Top.r0 = Top.r1 /\ NumSamples(Top.idx) > 1)

\* lines 74-83, 88, 92: the split separates the rows: break, and build the
\* left branch (the two drawn rows are dead from here on)
SplitAccept ==
    /\ RowsDrawn
    /\ CanSplit(Top.idx, Top.feat, SplitVal(Top))
    /\ stack' = SetTop([Top EXCEPT !.at = "left", !.split = SplitVal(Top),
                                  !.r0 = 0, !.r1 = 0,
                                  !.attempts = IF @ > NumFeats THEN @ ELSE @ + 1])
                \o <<Frame(LeftIndex(Top.idx, Top.feat, SplitVal(Top)))>>
    /\ UNCHANGED <<dataVars, learner, heap, pc, cur, train, ret, queryVars>>

\* lines 74-85: it does not: remove the feature from the pool and go round
\* (the split value is dead from here on)
SplitReject ==
    /\ RowsDrawn
    /\ ~CanSplit(Top.idx, Top.feat, SplitVal(Top))
    /\ stack' = SetTop([Top EXCEPT !.at = "loop",
                                  !.pool = PoolRemove(@, Top.feat),
                                  !.r0 = 0, !.r1 = 0,
                                  !.attempts = IF @ > NumFeats THEN @ ELSE @ + 1])
    /\ UNCHANGED <<dataVars, learner, heap, pc, cur, train, ret, queryVars>>

\* lines 62, 88-89: the pool is empty: return leaf
Exhausted ==
    /\ Building /\ Top.at = "loop"
    /\ Top.pool = {}
    /\ Deliver(<<LeafRow(Top.idx)>>)
    /\ UNCHANGED <<dataVars, learner, heap, pc, cur, train, queryVars>>

\* lines 96-102: both branches are built: the root row, stacked on them
Combine ==
    /\ Building /\ Top.at = "combine"
    /\ Deliver(VStack(RootRow(Top.feat, Top.split, RightTreeStart(Top.left), Top.idx),
                      Top.left, Top.right))
    /\ UNCHANGED <<dataVars, learner, heap, pc, cur, train, queryVars>>

BuildStep ==
    \/ BuildLeafStop
    \/ BuildBeginSearch
    \/ \E f \in 0..(MaxFeats - 1), a, b \in 0..(MaxSamples - 1) : ChooseAndDraw(f, a, b)
    \/ RedrawSame
    \/ RedrawDistinct
    \/ SplitAccept
    \/ SplitReject
    \/ Exhausted
    \/ Combine

\* ------------------------------------------------------------ the learner
AllRows(n) == [k \in 1..n |-> k]

\* the sub-sequences of 1..n that are not empty: the rows a caller passes
Selections(n) ==
    {sel \in UNION {[1..m -> 1..n] : m \in 1..n} :
        \A j \in 1..(Len(sel) - 1) : sel[j] < sel[j + 1]}

\* the heap once learner l has dropped its table (nobody else holding it)
Release(l) ==
    LET a == learner[l].tree IN
    IF a = NoTree \/ (\E m \in Learners \ {l} : learner[m].made /\ learner[m].tree = a)
    THEN heap
    ELSE [heap EXCEPT ![a] = <<>>]

FreshAddr(h) == CHOOSE a \in Addr : h[a] = <<>> /\ \A b \in Addr : h[b] = <<>> => a <= b

\* line 27 without deepcopy: self.tree = tree
NoCopy(l, a) == a
\* line 27: deepcopy(tree): a new array with the same content (None stays None)
Deepcopy(l, a) == IF a = NoTree THEN NoTree ELSE FreshAddr(Release(l))

\* lines 12, 25-27: l = RTLearner(leaf_size, tree=src.tree)
Construct(l, src) ==
    /\ pc = "idle"
    /\ learner[src].made /\ l # src
    /\ LET a == learner[src].tree
           n == Deepcopy(l, a)
       IN  /\ learner' = [learner EXCEPT ![l] =
                  [made |-> TRUE, tree |-> n, nfit |-> learner[src].nfit, nwrite |-> 0]]
           /\ heap' = IF n = NoTree \/ n = a THEN Release(l)
                      ELSE [Release(l) EXCEPT ![n] = heap[a]]
    /\ cur' = l
    /\ outcome' = "none"
    /\ UNCHANGED <<dataVars, pc, buildVars, qpoints, qi, qrow, qtrail, preds, qleaf>>

\* line 145: addEvidence(dataX[sel], dataY[sel]) calls __build_tree
AddEvidenceCall(l, sel) ==
    /\ pc = "idle"
    /\ learner[l].made
    /\ learner[l].nfit < MaxFits
    /\ pc' = "build"
    /\ cur' = l
    /\ train' = sel
    /\ stack' = <<Frame(sel)>>
    /\ ret' = <<>>
    /\ outcome' = "none"
    /\ UNCHANGED <<dataVars, learner, heap, qpoints, qi, qrow, qtrail, preds, qleaf>>

\* line 153 with the two tables swapped
StackNewFirst(tree, new_tree) == new_tree \o tree
\* line 153: np.vstack((self.tree, new_tree))
StackTrees(tree, new_tree) == tree \o new_tree

\* lines 147-157: the new tree becomes the table, or is stacked under it
AddEvidenceReturn ==
    /\ pc = "build" /\ stack = <<>>
    /\ LET h == Release(cur)
           a == FreshAddr(h)
           t == IF learner[cur].tree = NoTree THEN ret
                ELSE StackTrees(TableOf(cur), ret)
       IN  /\ heap' = [h EXCEPT ![a] = t]
           /\ learner' = [learner EXCEPT ![cur].tree = a, ![cur].nfit = @ + 1]
    /\ pc' = "idle"
    /\ ret' = <<>>
    /\ train' = <<>>
    /\ UNCHANGED <<dataVars, cur, stack, queryVars>>

\* line 219: rtl2.tree[0] = np.arange(rtl2.tree.shape[1]), on any row
ArangeRow == [feat |-> 0, val |-> 1, left |-> 2, right |-> 3, idx |-> <<>>]

OverwriteRow(l, r) ==
    /\ pc = "idle"
    /\ learner[l].made /\ learner[l].tree # NoTree
    /\ learner[l].nwrite < MaxWrites
    /\ r \in 0..(Len(TableOf(l)) - 1)
    /\ heap' = [heap EXCEPT ![learner[l].tree][r + 1] = ArangeRow]
    /\ learner' = [learner EXCEPT ![l].nwrite = @ + 1]
    /\ cur' = l
    /\ outcome' = "none"
    /\ UNCHANGED <<dataVars, pc, buildVars, qpoints, qi, qrow, qtrail, preds, qleaf>>

\* ------------------------------------------------------------------ query
Points == [1..NumFeats -> Vals]

\* lines 173-175: preds = [], and the first point (if any) starts at row 0
QueryCall(l, points) ==
    /\ pc = "idle"
    /\ learner[l].made
    /\ pc' = "query"
    /\ cur' = l
    /\ qpoints' = points
    /\ qi' = 1
    /\ qrow' = 0
    /\ qtrail' = <<0>>
    /\ preds' = <<>>
    /\ qleaf' = <<>>
    /\ outcome' = "none"
    /\ UNCHANGED <<dataVars, learner, heap, buildVars>>

Searching == pc = "query" /\ qi <= Len(qpoints)

\* the call is over: its locals are gone
QueryOver ==
    /\ pc' = "idle"
    /\ qpoints' = <<>>
    /\ qi' = 1
    /\ qrow' = 0
    /\ qtrail' = <<0>>
    /\ preds' = <<>>
    /\ qleaf' = <<>>
    /\ UNCHANGED <<dataVars, learner, heap, cur, buildVars>>

\* lines 174, 176: no point is left: return np.asarray(preds)
QueryReturn ==
    /\ pc = "query" /\ qi > Len(qpoints)
    /\ outcome' = "ok"
    /\ QueryOver

\* the call raises: query returns nothing
Raise(err) ==
    /\ outcome' = err
    /\ QueryOver

\* line 118 with self.tree None: 'NoneType' object is not subscriptable
SearchNoTree ==
    /\ Searching
    /\ learner[cur].tree = NoTree
    /\ Raise("TypeError")

InTable == Searching /\ learner[cur].tree # NoTree /\ qrow < Len(TableOf(cur))
QRow == TableOf(cur)[qrow + 1]

\* lines 121-122, 175: a leaf: its value is the prediction; on to the next point
SearchLeaf ==
    /\ InTable
    /\ QRow.feat = LeafFeat
    /\ preds' = Append(preds, QRow.val)
    /\ qleaf' = Append(qleaf, qrow)
    /\ qi' = qi + 1
    /\ qrow' = 0
    /\ qtrail' = <<0>>
    /\ UNCHANGED <<dataVars, learner, heap, pc, cur, buildVars, qpoints, outcome>>

\* line 125 with < for <=
GoesLeftStrict(point, feat, split_val) == point[feat + 1] < split_val
\* line 125: point[int(feat)] <= split_val
GoesLeft(point, feat, split_val) == point[feat + 1] <= split_val

\* lines 125-130: go on at the left or at the right subtree's row
NextRow(point, row, r) ==
    IF GoesLeft(point, r.feat, r.val) THEN row + r.left ELSE row + r.right

\* __tree_search as the function it computes: the leaf row reached from row
\* and its value, or the failure of line 118 beyond the table
RECURSIVE TreeSearch(_, _, _)
TreeSearch(t, point, row) ==
    IF row >= Len(t) THEN [err |-> TRUE, val |-> 0, leaf |-> row]
    ELSE IF t[row + 1].feat = LeafFeat
         THEN [err |-> FALSE, val |-> t[row + 1].val, leaf |-> row]
         ELSE TreeSearch(t, point, NextRow(point, row, t[row + 1]))

SearchDescend ==
    /\ InTable
    /\ QRow.feat # LeafFeat
    /\ qrow' = NextRow(qpoints[qi], qrow, QRow)
    /\ qtrail' = Append(qtrail, qrow')
    /\ UNCHANGED <<dataVars, learner, heap, pc, cur, buildVars, qpoints, qi, preds,
                   qleaf, outcome>>

QueryStep ==
    \/ QueryReturn
    \/ SearchLeaf
    \/ SearchDescend

\* ------------------------------------------------------- specifications
Shapes(maxn, maxf) ==
    {sh \in (1..maxn) \X (1..maxf) : sh[1] * sh[2] <= MaxCells}

TrainingSets(maxn, maxf) ==
    UNION {[1..sh[1] -> [1..sh[2] -> Vals]] \X [1..sh[1] -> YVals] :
              sh \in Shapes(maxn, maxf)}

InitWith(sets) ==
    /\ \E d \in sets : dataX = d[1] /\ dataY = d[2]
    /\ leaf_size \in 1..MaxLeaf
    /\ learner = [l \in Learners |->
                    [made |-> (l = "rtl"), tree |-> NoTree, nfit |-> 0, nwrite |-> 0]]
    /\ heap = [a \in Addr |-> <<>>]
    /\ pc = "idle"
    /\ cur = "rtl"
    /\ train = <<>>
    /\ stack = <<>>
    /\ ret = <<>>
    /\ qpoints = <<>>
    /\ qi = 1
    /\ qrow = 0
    /\ qtrail = <<0>>
    /\ preds = <<>>
    /\ qleaf = <<>>
    /\ outcome = "none"

\* TreeBuilder and TreeQuery: one learner, fitted once, queried with one point
Init == InitWith(TrainingSets(MaxSamples, MaxFeats))

FirstFit ==
    /\ learner["rtl"].tree = NoTree
    /\ AddEvidenceCall("rtl", AllRows(Len(dataX)))

QueryOne ==
    /\ learner["rtl"].tree # NoTree
    /\ \E p \in Points : QueryCall("rtl", <<p>>)

Next ==
    \/ FirstFit
    \/ BuildStep
    \/ AddEvidenceReturn
    \/ QueryOne
    \/ QueryStep

Spec == Init /\ [][Next]_vars

\* the same with the fairness of a running program: a call that can take a
\* step takes one, and the row draws do not come out equal for ever
Progress ==
    \/ BuildLeafStop
    \/ BuildBeginSearch
    \/ \E f \in 0..(MaxFeats - 1), a, b \in 0..(MaxSamples - 1) : ChooseAndDraw(f, a, b)
    \/ RedrawDistinct
    \/ SplitAccept
    \/ SplitReject
    \/ Exhausted
    \/ Combine
    \/ AddEvidenceReturn

LiveSpec == Init /\ [][Next]_vars /\ WF_vars(Progress)

\* The facade, fitting: one learner, fitted repeatedly on chosen rows of a
\* small training set and queried with several points, also before any fit
FacadeSets == TrainingSets(FacadeSamples, FacadeFeats)

FitInit == InitWith(FacadeSets)

PointSeqs == UNION {[1..m -> Points] : m \in 0..MaxPoints}

Fit == \E sel \in Selections(Len(dataX)) : AddEvidenceCall("rtl", sel)

Query == \E points \in PointSeqs : QueryCall("rtl", points)

FitNext ==
    \/ Fit
    \/ BuildStep
    \/ AddEvidenceReturn
    \/ Query
    \/ QueryStep
    \/ SearchNoTree

FitSpec == FitInit /\ [][FitNext]_vars

\* The facade, copying: a second learner made from the first one's tree; both
\* are fitted (on all rows) and have rows of their tables written in place
CopyInit == InitWith(FacadeSets)

FitAll == \E l \in Learners : AddEvidenceCall(l, AllRows(Len(dataX)))

Overwrite ==
    \E l \in Learners : \E r \in 0..(MaxFits * (2 * FacadeSamples - 1)) : OverwriteRow(l, r)

CopyNext ==
    \/ Construct("rtl2", "rtl")
    \/ FitAll
    \/ BuildStep
    \/ AddEvidenceReturn
    \/ Overwrite

CopySpec == CopyInit /\ [][CopyNext]_vars

\* ------------------------------------------------------------------ claims
IsLeaf(row) == row.feat = LeafFeat

\* the row count of the subtree whose root is row r (0-based) of table t, read
\* off the table in pre-order: a leaf is one row, an internal row is followed
\* by its left subtree and then by its right subtree
RECURSIVE SubtreeRows(_, _)
SubtreeRows(t, r) ==
    IF r >= Len(t) THEN 0
    ELSE IF IsLeaf(t[r + 1]) THEN 1
         ELSE 1 + SubtreeRows(t, r + 1)
                + SubtreeRows(t, r + 1 + SubtreeRows(t, r + 1))

\* the outermost __build_tree call has returned its table to addEvidence
Returned == pc = "build" /\ stack = <<>>
\* the learner rtl holds the table of one fit
Stored == pc # "build" /\ learner["rtl"].nfit = 1

PreOrder(t) ==
    /\ SubtreeRows(t, 0) = Len(t)
    /\ \A r \in 0..(Len(t) - 1) :
          ~IsLeaf(t[r + 1]) =>
              /\ t[r + 1].left = 1
              /\ t[r + 1].right = SubtreeRows(t, r + 1) + 1
              /\ SubtreeRows(t, r + 1) >= 1
              /\ SubtreeRows(t, r + t[r + 1].right) >= 1
              /\ r + t[r + 1].right + SubtreeRows(t, r + t[r + 1].right) <= Len(t)
              \* the rows after r were built from the left partition, the
              \* rows after those from the right partition
              /\ t[r + 2].idx = LeftIndex(t[r + 1].idx, t[r + 1].feat, t[r + 1].val)
              /\ t[r + t[r + 1].right + 1].idx
                     = RightIndex(t[r + 1].idx, t[r + 1].feat, t[r + 1].val)

\* C1: the table the tree builder returns, and addEvidence stores, is in
\* pre-order layout: every internal row has left offset 1 and right offset
\* (rows of its left subtree) + 1, its left subtree directly after it and its
\* right subtree directly after the left one, all of it inside the table.
C1_PreOrderLayout ==
    /\ Returned => PreOrder(ret)
    /\ Stored => PreOrder(TableOf("rtl"))

\* C1 witness: a stored tree whose root has a left subtree of three rows
C1_Witness ==
    /\ Stored
    /\ Len(TableOf("rtl")) = 5
    /\ TableOf("rtl")[1].right = 4

\* C4: a tree built from num_samples rows has at most 2 * num_samples - 1
\* rows, and an odd number of them: every internal row has its two subtrees,
\* each of at least one row, in the table.
C4_RowCount ==
    Returned => /\ Len(ret) <= 2 * Len(train) - 1
                /\ Len(ret) % 2 = 1
                /\ \A r \in 0..(Len(ret) - 1) :
                      ~IsLeaf(ret[r + 1]) =>
                          /\ r + 1 < Len(ret)
                          /\ r + 1 < r + ret[r + 1].right
                          /\ r + ret[r + 1].right < Len(ret)

\* C4 witness: three samples gave the full five rows
C4_Witness == Returned /\ Len(train) = 3 /\ Len(ret) = 5

TwoDistinct ==
    /\ Len(train) = 2 /\ NumFeats = 1
    /\ dataX[train[1]][1] # dataX[train[2]][1]

Larger(a, b) == IF a >= b THEN a ELSE b
Smaller(a, b) == IF a <= b THEN a ELSE b

ThreeRowTree(t) ==
    /\ Len(t) = 3
    /\ ~IsLeaf(t[1]) /\ IsLeaf(t[2]) /\ IsLeaf(t[3])

\* C6 as stated: one feature, two samples with different values: three rows
\* (a split and two leaves) or, only when leaf_size >= 2, a single leaf; with
\* leaf_size = 1 always the three rows, whatever the two Y values.
C6_AsStated ==
    (Returned /\ TwoDistinct) =>
        /\ ThreeRowTree(ret) \/ (leaf_size >= 2 /\ Len(ret) = 1)
        /\ leaf_size = 1 => ThreeRowTree(ret)

\* the mean of the two feature values, as computed, separates the two rows
MeanSeparates ==
    LET a == dataX[train[1]][1]
        b == dataX[train[2]][1]
    IN  Smaller(a, b) <= FMean(a, b) /\ FMean(a, b) < Larger(a, b)

\* C6 amended: one feature, two samples with different values: a single leaf
\* row when leaf_size >= 2, or the two Y values are equal, or the computed
\* mean of the two feature values does not separate them (it rounds to the
\* larger one); three rows (a split and two leaves) in every other case.
C6_TwoSamples ==
    (Returned /\ TwoDistinct) =>
        IF leaf_size >= 2 \/ dataY[train[1]] = dataY[train[2]] \/ ~MeanSeparates
        THEN Len(ret) = 1 /\ IsLeaf(ret[1])
        ELSE ThreeRowTree(ret)

\* C6 witness: leaf_size 1 and two equal Y values gave a single leaf
C6_Witness ==
    /\ Returned /\ TwoDistinct
    /\ leaf_size = 1 /\ dataY[train[1]] = dataY[train[2]]
    /\ MeanSeparates
    /\ Len(ret) = 1

ColumnConstant(idx, f) == Cardinality(Range(Column(idx, f))) = 1

\* the split search of the running call has emptied its pool
PoolExhausted == Building /\ Top.at = "loop" /\ Top.pool = {}

\* C9: when the split search empties its pool and falls back to a leaf, every
\* feature column is constant over the node's samples.
C9_ExhaustionMeansConstant ==
    PoolExhausted => \A f \in 0..(NumFeats - 1) : ColumnConstant(Top.idx, f)

StrictlyIncreasing(q) == \A j \in 1..(Len(q) - 1) : q[j] < q[j + 1]

\* C2: the traversal of a query on a tree built by one addEvidence call
\* visits only rows inside the table, moves to a strictly larger row at every
\* internal row, visits at most as many rows as there are training samples
\* and ends at a leaf row, whose value is the prediction.
C2_BoundedTraversal ==
    /\ (pc = "query" /\ Searching) =>
          /\ learner[cur].tree # NoTree
          /\ qrow < Len(TableOf(cur))
          /\ qtrail[Len(qtrail)] = qrow
          /\ StrictlyIncreasing(qtrail)
          /\ Len(qtrail) <= Len(dataX)
    /\ (pc = "query" /\ ~Searching) =>
          /\ Len(preds) = Len(qpoints)
          /\ \A k \in 1..Len(preds) :
                /\ qleaf[k] < Len(TableOf(cur))
                /\ IsLeaf(TableOf(cur)[qleaf[k] + 1])
                /\ preds[k] = TableOf(cur)[qleaf[k] + 1].val

\* C2 witness: a query that went through two internal rows has its prediction
C2_Witness ==
    /\ pc = "query" /\ ~Searching
    /\ Len(preds) = 1
    /\ qleaf[1] >= 3

\* the training samples equal to the point being searched
SamplesAt(point) == {i \in 1..Len(dataX) : dataX[i] = point}

\* C3: a query of a training sample's x visits only rows built from subsets
\* holding that sample, so it ends at the leaf built from the sample's own
\* subset, and the prediction is one of that subset's Y values.
C3_RoutingConsistency ==
    /\ (pc = "query" /\ Searching /\ qrow < Len(TableOf(cur))) =>
          \A i \in SamplesAt(qpoints[qi]) : i \in Range(QRow.idx)
    /\ (pc = "query" /\ ~Searching) =>
          \A k \in 1..Len(preds) :
              LET leaf == TableOf(cur)[qleaf[k] + 1] IN
              /\ IsLeaf(leaf)
              /\ preds[k] \in Range(SubY(leaf.idx))
              /\ \A i \in SamplesAt(qpoints[k]) : i \in Range(leaf.idx)

\* C3 witness: a training sample whose value equals the root's split value
\* has been routed to a leaf under the root
C3_Witness ==
    /\ pc = "query" /\ ~Searching
    /\ Len(preds) = 1
    /\ SamplesAt(qpoints[1]) # {}
    /\ Len(TableOf(cur)) >= 3
    /\ qpoints[1][TableOf(cur)[1].feat + 1] = TableOf(cur)[1].val

\* the frame's split was accepted: the call is building its branches
Accepted(fr) == fr.at \in {"left", "right", "combine"}

C10_Bounded ==
    \A k \in 1..Len(stack) :
        LET fr == stack[k] IN
        /\ fr.attempts <= NumFeats
        /\ fr.at \in {"loop", "rows"} => fr.attempts = NumFeats - Cardinality(fr.pool)
        /\ Accepted(fr) =>
              /\ fr.pool # {}
              /\ LeftIndex(fr.idx, fr.feat, fr.split) # <<>>
              /\ RightIndex(fr.idx, fr.feat, fr.split) # <<>>
        /\ Len(fr.idx) >= 1
        /\ k > 1 => Len(fr.idx) < Len(stack[k - 1].idx)

\* C10: tree construction terminates: every call makes at most num_features
\* split attempts (a failed one removes its feature from the pool, an
\* accepted one leaves the pool and both partitions non-empty), every
\* recursive call gets fewer samples than its caller, and, the row draws not
\* coming out equal for ever, addEvidence returns.
C10_BuildTerminates ==
    /\ []C10_Bounded
    /\ (pc = "build") ~> (pc = "idle")

\* C10 witness: a recursive call sits in the redraw loop with two equal rows
C10_Witness ==
    /\ Building
    /\ Len(stack) >= 2
    /\ Top.at = "rows"
    /\ Top.r0 = Top.r1

\* C5: a query on a learner that owns no tree fails, whatever the points (an
\* empty sequence too), and returns no predictions.
C5_UnfittedQueryFails ==
    /\ (pc = "query" /\ learner[cur].tree = NoTree) => Searching
    /\ (pc = "idle" /\ learner[cur].tree = NoTree /\ outcome # "none") =>
          outcome = "TypeError" /\ preds = <<>>

IsPrefix(old, new) ==
    /\ Len(old) <= Len(new)
    /\ SubSeq(new, 1, Len(old)) = old

\* C7: addEvidence on a learner that owns a tree keeps every row of the old
\* table in place, puts the new tree's rows after them, and changes no
\* prediction: the traversal from row 0 ends inside the old table as before.
C7_AppendSemantics ==
    [][(Returned /\ pc' = "idle" /\ learner[cur].tree # NoTree) =>
          LET old == TableOf(cur)
              new == TableOf(cur)'
          IN  /\ IsPrefix(old, new)
              /\ new[1] = old[1]
              /\ Len(new) = Len(old) + Len(ret)
              /\ SubSeq(new, Len(old) + 1, Len(new)) = ret
              /\ \A p \in Points :
                    /\ TreeSearch(new, p, 0) = TreeSearch(old, p, 0)
                    /\ ~TreeSearch(new, p, 0).err
                    /\ TreeSearch(new, p, 0).leaf < Len(old)]_vars

\* C7 witness: a three-row tree with a single leaf stacked under it
C7_Witness ==
    /\ pc = "idle"
    /\ learner["rtl"].nfit = 2
    /\ Len(TableOf("rtl")) = 4
    /\ ~IsLeaf(TableOf("rtl")[1])

\* C8: a learner made from an existing tree starts with an equal table, and a
\* learner's table changes only by that learner's own calls and row writes:
\* never by the other learner's.
C8_CopyIndependent ==
    [][/\ Construct("rtl2", "rtl") =>
              /\ TableOf("rtl2")' = TableOf("rtl")
              /\ TableOf("rtl")' = TableOf("rtl")
       /\ \A l \in Learners : cur' # l => TableOf(l)' = TableOf(l)]_vars

\* C8 witness: the copy has had a row written and a tree stacked, the source
\* a tree stacked, and the two tables differ
C8_Witness ==
    /\ pc = "idle"
    /\ learner["rtl2"].made
    /\ learner["rtl2"].nwrite = 1 /\ learner["rtl2"].nfit = 2
    /\ learner["rtl"].nwrite = 0 /\ learner["rtl"].nfit = 2
    /\ learner["rtl"].tree # learner["rtl2"].tree
    /\ TableOf("rtl") # TableOf("rtl2")

====
